---------------------------- MODULE Spec2Model ----------------------------
(***************************************************************************)
(* Model of the Flask "Top 5" submission application (src/app.py).         *)
(*                                                                         *)
(* State: the module-level list `submissions`, and what the most recent    *)
(* request produced (the notices it flashed, the response it returned).    *)
(* A text is a sequence of one-character strings, so that len(), strip()   *)
(* and the character test of validate_input are computed, not assumed.     *)
(* A notice message is a string, built the way the f-strings build it.     *)
(***************************************************************************)
EXTENDS Integers, Sequences, FiniteSets, TLC

VARIABLES
    submissions,    \* the global list `submissions`
    flashed,        \* notices flashed by the most recent request, in order
    response,       \* the response returned by the most recent request
    outcome,        \* which return path of its handler the request took
    assigned,       \* history: id values (up to MaxTracked) handed out so far
    threads         \* per worker thread: position in a handler, its locals

vars == <<submissions, flashed, response, outcome, assigned, threads>>

---------------------------------------------------------------------------
(* Configuration, src/app.py lines 30-32.                                  *)

MAX_CATEGORY_LENGTH == 100
MAX_ITEM_LENGTH == 200
MAX_SUBMISSIONS == 1000

---------------------------------------------------------------------------
(* Bounds of the exploration.                                              *)

\* Every form is submitted while the store holds fewer than MaxVaried
\* submissions, and a form of each kind again once it holds at least
\* MAX_SUBMISSIONS - NearFull; in between only the one fixed valid form is
\* submitted, which keeps the number of distinct 1000-element stores small.
MaxVaried == 1
NearFull == 1
\* The history variable `assigned` records the id values 1..MaxTracked.
MaxTracked == 2
\* Number of worker threads of the concurrent specification.
NumThreads == 2

---------------------------------------------------------------------------
(* Texts.                                                                  *)

None == "None"

Whitespace == {" ", "\t", "\n"}

Repeat(c, n) == [i \in 1..n |-> c]

\* str.strip(): the text without its leading and trailing whitespace.
strip(text) ==
    LET keep == {i \in 1..Len(text) : text[i] \notin Whitespace}
    IN  IF keep = {} THEN <<>>
        ELSE LET lo == CHOOSE i \in keep :
                           \A j \in 1..(i - 1) : text[j] \in Whitespace
                 hi == CHOOSE i \in keep :
                           \A j \in (i + 1)..Len(text) : text[j] \in Whitespace
             IN  SubSeq(text, lo, hi)

\* request.form.get(key, default)
form_get(form, key, default) ==
    IF key \in DOMAIN form THEN form[key] ELSE default

\* f"item{i}"
item_key(i) == "item" \o ToString(i)

\* f"Item {idx}"
item_name(idx) == "Item " \o ToString(idx)

---------------------------------------------------------------------------
(* validate_input, src/app.py lines 35-47.                                 *)

InvalidChars == {"<", ">", "\"", "'"}

empty_message(field_name) == field_name \o " cannot be empty"

too_long_message(field_name, max_length) ==
    field_name \o " exceeds maximum length of " \o ToString(max_length)
               \o " characters"

invalid_message(field_name) == field_name \o " contains invalid characters"

\* validate_input without its character test
validate_input_no_char_test(text, max_length, field_name) ==
    IF text = <<>>
    THEN [is_valid |-> FALSE, error_msg |-> empty_message(field_name)]
    ELSE IF Len(text) > max_length
    THEN [is_valid |-> FALSE,
          error_msg |-> too_long_message(field_name, max_length)]
    ELSE [is_valid |-> TRUE, error_msg |-> None]

\* validate_input with the character test moved before the length test
validate_input_chars_first(text, max_length, field_name) ==
    IF text = <<>>
    THEN [is_valid |-> FALSE, error_msg |-> empty_message(field_name)]
    ELSE IF \E i \in 1..Len(text) : text[i] \in InvalidChars
    THEN [is_valid |-> FALSE, error_msg |-> invalid_message(field_name)]
    ELSE IF Len(text) > max_length
    THEN [is_valid |-> FALSE,
          error_msg |-> too_long_message(field_name, max_length)]
    ELSE [is_valid |-> TRUE, error_msg |-> None]

validate_input(text, max_length, field_name) ==
    IF text = <<>>
    THEN [is_valid |-> FALSE, error_msg |-> empty_message(field_name)]
    ELSE IF Len(text) > max_length
    THEN [is_valid |-> FALSE,
          error_msg |-> too_long_message(field_name, max_length)]
    ELSE IF \E i \in 1..Len(text) : text[i] \in InvalidChars
    THEN [is_valid |-> FALSE, error_msg |-> invalid_message(field_name)]
    ELSE [is_valid |-> TRUE, error_msg |-> None]

---------------------------------------------------------------------------
(* home, POST branch, src/app.py lines 55-103.                             *)

\* lines 58-62: the trimmed category and the five trimmed items
extract_category(form) == strip(form_get(form, "category", <<>>))

extract_items(form) ==
    [i \in 1..5 |-> strip(form_get(form, item_key(i), <<>>))]

\* lines 73-79: the loop over the items, returning at the first invalid one
RECURSIVE validate_items(_, _)
validate_items(items, idx) ==
    IF idx > Len(items) THEN [is_valid |-> TRUE, error_msg |-> None]
    ELSE LET v == validate_input(items[idx], MAX_ITEM_LENGTH, item_name(idx))
         IN  IF ~v.is_valid THEN v ELSE validate_items(items, idx + 1)

\* lines 64-79: the category first, then the items
validate_form(form) ==
    LET v == validate_input(extract_category(form), MAX_CATEGORY_LENGTH,
                            "Category")
    IN  IF ~v.is_valid THEN v ELSE validate_items(extract_items(form), 1)

\* the capacity test with > for >=
limit_reached_strict(subs) == Len(subs) > MAX_SUBMISSIONS

\* line 82
limit_reached(subs) == Len(subs) >= MAX_SUBMISSIONS

\* the id without the + 1
next_id_zero_based(subs) == Len(subs)

\* line 89
next_id(subs) == Len(subs) + 1

\* the submission built from the fields as sent, not trimmed
new_submission_untrimmed(id, form, now) ==
    [id |-> id,
     category |-> form_get(form, "category", <<>>),
     five |-> [i \in 1..5 |-> form_get(form, item_key(i), <<>>)],
     timestamp |-> now]

\* lines 88-93
new_submission(id, form, now) ==
    [id |-> id,
     category |-> extract_category(form),
     five |-> extract_items(form),
     timestamp |-> now]

\* line 95
append_submission(subs, submission) == Append(subs, submission)

\* flash(message, category)
notice(message, category) == [message |-> message, category |-> category]

LimitMessage == "Submission limit reached. Please contact administrator."
SuccessMessage == "Your top 5 list has been submitted successfully!"
FailureMessage == "An error occurred. Please try again."
ClearedMessage == "All submissions have been cleared."

\* redirect(url_for('home'))
redirect_home == [status |-> 302, location |-> "/"]

\* lines 130-134: the page Flask renders for a fault no handler caught
internal_error == [status |-> 500, template |-> "500.html"]

\* the POST branch without its except clause: the fault reaches Flask
post_failure_uncaught(subs) ==
    [outcome |-> "InternalFault",
     flashed |-> <<>>,
     submissions |-> subs,
     response |-> internal_error]

\* lines 99-103: the except branch, then the redirect after it
post_failure(subs) ==
    [outcome |-> "UnexpectedFailure",
     flashed |-> <<notice(FailureMessage, "error")>>,
     submissions |-> subs,
     response |-> redirect_home]

\* lines 68-70 and 77-79: an invalid field
post_rejected(subs, error_msg) ==
    [outcome |-> "Rejected",
     flashed |-> <<notice(error_msg, "error")>>,
     submissions |-> subs,
     response |-> redirect_home]

\* a full list making room by dropping its oldest submission
post_limit_evicts(subs) ==
    [outcome |-> "CapacityRejected",
     flashed |-> <<notice(LimitMessage, "error")>>,
     submissions |-> Tail(subs),
     response |-> redirect_home]

\* lines 83-85: the list is full
post_limit(subs) ==
    [outcome |-> "CapacityRejected",
     flashed |-> <<notice(LimitMessage, "error")>>,
     submissions |-> subs,
     response |-> redirect_home]

\* lines 88-97 and 103: the submission is created and appended
post_accepted(subs, form, now) ==
    [outcome |-> "Accepted",
     flashed |-> <<notice(SuccessMessage, "success")>>,
     submissions |->
         append_submission(subs, new_submission(next_id(subs), form, now)),
     response |-> redirect_home]

\* The POST branch as a function of the request and the list: the path
\* taken, the notices flashed, the list afterwards and the response.
\* `malformed` is a request whose body cannot be read as a form:
\* request.form raises inside the try.
home_post(malformed, form, now, subs) ==
    IF malformed THEN post_failure(subs)
    ELSE LET v == validate_form(form)
         IN  IF ~v.is_valid THEN post_rejected(subs, v.error_msg)
             ELSE IF limit_reached(subs) THEN post_limit(subs)
             ELSE post_accepted(subs, form, now)

---------------------------------------------------------------------------
(* home, GET branch, src/app.py lines 105-111.                             *)

\* the list handed to the page as stored, oldest first
not_reversed(subs) == subs

\* reversed(submissions)
reversed(subs) == [i \in 1..Len(subs) |-> subs[Len(subs) + 1 - i]]

home_get(subs) ==
    [status |-> 200,
     template |-> "index.html",
     submissions |-> reversed(subs),
     max_category_length |-> MAX_CATEGORY_LENGTH,
     max_item_length |-> MAX_ITEM_LENGTH]

---------------------------------------------------------------------------
(* clear_submissions, src/app.py lines 114-121.                            *)

\* the assignment without `global submissions`: the list is not rebound
cleared_local_only(subs) == subs

\* line 118: the list after `submissions = []`
cleared(subs) == <<>>

---------------------------------------------------------------------------
(* The requests the clients send.                                          *)

\* datetime.now().isoformat(): the two readings the clock may give
Times == {"2024-01-01T10:00:00", "2024-01-01T10:00:01"}

FieldKeys == {"category"} \cup {item_key(i) : i \in 1..5}

\* position of a field in the order the handler validates them
field_order(key) ==
    IF key = "category" THEN 0
    ELSE CHOOSE i \in 1..5 : item_key(i) = key

field_name_of(key) ==
    IF key = "category" THEN "Category" ELSE item_name(field_order(key))

field_limit(key) ==
    IF key = "category" THEN MAX_CATEGORY_LENGTH ELSE MAX_ITEM_LENGTH

MoviesForm ==
    [category |-> <<"M", "o", "v", "i", "e", "s">>,
     item1 |-> <<"A">>, item2 |-> <<"B">>, item3 |-> <<"C">>,
     item4 |-> <<"D">>, item5 |-> <<"E">>]

\* every field at its limit once trimmed, padded with whitespace before
EdgeForm ==
    [category |-> <<" ">> \o Repeat("c", MAX_CATEGORY_LENGTH) \o <<"\n">>,
     item1 |-> Repeat("v", MAX_ITEM_LENGTH),
     item2 |-> <<"\t", "w", " ", "w", " ">>,
     item3 |-> <<"x">> \o Repeat("-", MAX_ITEM_LENGTH - 2) \o <<"x">>,
     item4 |-> <<"y", "&", "y">>,
     item5 |-> <<" ">> \o Repeat("z", MAX_ITEM_LENGTH)]

With(form, key, text) ==
    [k \in DOMAIN form |-> IF k = key THEN text ELSE form[k]]

Without(form, keys) == [k \in DOMAIN form \ keys |-> form[k]]

EmptyTexts == {<<>>, <<" ", "\t">>}

TooLongTexts(key) ==
    {Repeat("a", field_limit(key) + 1),
     Repeat("a", field_limit(key)) \o <<"<">>,
     <<" ">> \o Repeat("a", field_limit(key) + 1) \o <<" ">>}

BadCharTexts ==
    {<<"<", "s", "c", "r", "i", "p", "t", ">">>,
     <<"a", "\"">>, <<"'">>, <<"x", ">", " ", "y">>}

BadTexts(key) == EmptyTexts \cup TooLongTexts(key) \cup BadCharTexts

\* one representative text of each failure, for forms with two bad fields
PairTexts(key) == {<<>>, Repeat("a", field_limit(key)) \o <<"'">>, <<"<">>}

ValidForms == {MoviesForm, EdgeForm}

\* the forms with field k, and a field g validated after it, both bad
PairForms(k, g) ==
    {With(With(MoviesForm, k, t), g, u) :
        t \in PairTexts(k), u \in PairTexts(g)}

FieldPairs ==
    {p \in FieldKeys \X FieldKeys : field_order(p[1]) < field_order(p[2])}

InvalidForms ==
    UNION {{With(MoviesForm, k, t) : t \in BadTexts(k)} : k \in FieldKeys}
    \cup {Without(MoviesForm, {k}) : k \in FieldKeys}
    \cup {Without(MoviesForm, FieldKeys)}
    \cup UNION {PairForms(p[1], p[2]) : p \in FieldPairs}

Forms == ValidForms \cup InvalidForms

\* the forms sent to a store that is nearly or entirely full: the valid
\* ones, and one form for each kind of failure
NearFullForms ==
    ValidForms
    \cup {With(MoviesForm, "category", <<>>),
          With(MoviesForm, "item3", Repeat("a", MAX_ITEM_LENGTH + 1)),
          With(MoviesForm, "item5", <<"<">>)}

\* the store sizes at which more than the one fixed request is tried
Small(n) == n < MaxVaried
Near(n) == n >= MAX_SUBMISSIONS - NearFull
Varied(n) == Small(n) \/ Near(n)

FormsAt(n) ==
    IF Small(n) THEN Forms
    ELSE IF Near(n) THEN NearFullForms
    ELSE {MoviesForm}

\* the clock readings tried: both of them once the store is nearly full
TimesAt(n) ==
    IF Near(n) THEN Times ELSE {CHOOSE t \in Times : TRUE}

\* a request whose body cannot be read as a form, and the readable ones
MalformedRequest == [malformed |-> TRUE, form |-> <<>>]

RequestsAt(n) ==
    {[malformed |-> FALSE, form |-> f] : f \in FormsAt(n)}
    \cup (IF Varied(n) THEN {MalformedRequest} ELSE {})

---------------------------------------------------------------------------
(* The application serving one request at a time.                          *)

NoResponse == [status |-> 0]

Threads == 1..NumThreads

IdleThread == [pc |-> "idle"]

track(ids, submission) == ids \cup ({submission.id} \cap (1..MaxTracked))

Init ==
    /\ submissions = <<>>
    /\ flashed = <<>>
    /\ response = NoResponse
    /\ outcome = "Idle"
    /\ assigned = {}
    /\ threads = [t \in Threads |-> IdleThread]

\* POST /
Submit ==
    \E req \in RequestsAt(Len(submissions)),
       now \in TimesAt(Len(submissions)) :
        LET r == home_post(req.malformed, req.form, now, submissions)
        IN  /\ submissions' = r.submissions
            /\ flashed' = r.flashed
            /\ response' = r.response
            /\ outcome' = r.outcome
            /\ assigned' =
                   IF r.outcome = "Accepted"
                   THEN track(assigned, r.submissions[Len(r.submissions)])
                   ELSE assigned
            /\ UNCHANGED threads

\* GET /
Display ==
    /\ response' = home_get(submissions)
    /\ flashed' = <<>>
    /\ outcome' = "Displayed"
    /\ UNCHANGED <<submissions, assigned, threads>>

\* POST /clear
Clear ==
    /\ submissions' = cleared(submissions)
    /\ flashed' = <<notice(ClearedMessage, "info")>>
    /\ response' = redirect_home
    /\ outcome' = "Cleared"
    /\ UNCHANGED <<assigned, threads>>

Next == Submit \/ Display \/ Clear

Spec == Init /\ [][Next]_vars

---------------------------------------------------------------------------
(* The application serving requests on several threads (app.run serves     *)
(* each request on a thread of its own).  A handler's reads and writes of  *)
(* the list are separate steps: the capacity test of line 82, the          *)
(* len(submissions) + 1 of line 89, the append of line 95 and the          *)
(* assignment of line 118; no lock is held between them.                   *)

\* what a handler is about to return
Responding(r) ==
    [pc |-> "respond", outcome |-> r.outcome, flashed |-> r.flashed,
     response |-> r.response]

AllIdle == \A u \in Threads : threads[u].pc = "idle"

\* Requests overlap while the store is small or nearly full; in between
\* they arrive one at a time, on the first thread.
MayStart(t) ==
    \/ Varied(Len(submissions))
    \/ (AllIdle /\ t = 1)

ConcurrentForms == {MoviesForm, With(MoviesForm, "category", <<>>)}

ConcurrentRequestsAt(n) ==
    IF Varied(n)
    THEN {[malformed |-> FALSE, form |-> f] : f \in ConcurrentForms}
         \cup {MalformedRequest}
    ELSE {[malformed |-> FALSE, form |-> MoviesForm]}

Now == CHOOSE t \in Times : TRUE

\* POST /, lines 55-79: the form is read and validated
Receive(t) ==
    /\ threads[t].pc = "idle"
    /\ MayStart(t)
    /\ \E req \in ConcurrentRequestsAt(Len(submissions)) :
           threads' = [threads EXCEPT ![t] =
               IF req.malformed
               THEN Responding(post_failure(submissions))
               ELSE LET v == validate_form(req.form)
                    IN  IF ~v.is_valid
                        THEN Responding(post_rejected(submissions,
                                                      v.error_msg))
                        ELSE [pc |-> "check", form |-> req.form]]
    /\ UNCHANGED <<submissions, flashed, response, outcome, assigned>>

\* lines 82-85: the capacity test
CheckLimit(t) ==
    /\ threads[t].pc = "check"
    /\ threads' = [threads EXCEPT ![t] =
           IF limit_reached(submissions)
           THEN Responding(post_limit(submissions))
           ELSE [pc |-> "create", form |-> threads[t].form]]
    /\ UNCHANGED <<submissions, flashed, response, outcome, assigned>>

\* lines 88-93: the submission is built, its id from the size of the list
Create(t) ==
    /\ threads[t].pc = "create"
    /\ threads' = [threads EXCEPT ![t] =
           [pc |-> "append",
            submission |->
                new_submission(next_id(submissions), threads[t].form, Now)]]
    /\ UNCHANGED <<submissions, flashed, response, outcome, assigned>>

\* lines 95-97: the append, then the success notice
AppendCreated(t) ==
    /\ threads[t].pc = "append"
    /\ submissions' = append_submission(submissions, threads[t].submission)
    /\ threads' = [threads EXCEPT ![t] =
           [pc |-> "respond", outcome |-> "Accepted",
            flashed |-> <<notice(SuccessMessage, "success")>>,
            response |-> redirect_home]]
    /\ UNCHANGED <<flashed, response, outcome, assigned>>

\* POST /clear, lines 117-121
ClearAll(t) ==
    /\ threads[t].pc = "idle"
    /\ MayStart(t)
    /\ submissions' = cleared(submissions)
    /\ threads' = [threads EXCEPT ![t] =
           [pc |-> "respond", outcome |-> "Cleared",
            flashed |-> <<notice(ClearedMessage, "info")>>,
            response |-> redirect_home]]
    /\ UNCHANGED <<flashed, response, outcome, assigned>>

\* the handler returns and the thread is free again
Respond(t) ==
    /\ threads[t].pc = "respond"
    /\ threads' = [threads EXCEPT ![t] = IdleThread]
    /\ UNCHANGED <<submissions, flashed, response, outcome, assigned>>

NextConcurrent ==
    \E t \in Threads :
        \/ Receive(t)
        \/ CheckLimit(t)
        \/ Create(t)
        \/ AppendCreated(t)
        \/ ClearAll(t)
        \/ Respond(t)

SpecConcurrent == Init /\ [][NextConcurrent]_vars

---------------------------------------------------------------------------
(* What the specification says of a field, stated apart from the code.     *)

Disallowed == {"<", ">", "\"", "'"}

Trimmed(form, key) == strip(form_get(form, key, <<>>))

TrimmedItems(form) == [i \in 1..5 |-> Trimmed(form, item_key(i))]

HasDisallowed(text) == \E i \in 1..Len(text) : text[i] \in Disallowed

LimitOf(key) == IF key = "category" THEN 100 ELSE 200

FieldOk(form, key) ==
    /\ Trimmed(form, key) # <<>>
    /\ Len(Trimmed(form, key)) <= LimitOf(key)
    /\ ~HasDisallowed(Trimmed(form, key))

AllFieldsOk(form) == \A k \in FieldKeys : FieldOk(form, k)

\* the first field, in the order category, item 1, ..., item 5, that fails
FirstBadField(form) ==
    CHOOSE k \in FieldKeys :
        /\ ~FieldOk(form, k)
        /\ \A g \in FieldKeys :
               field_order(g) < field_order(k) => FieldOk(form, g)

EmptyNotice(key) == field_name_of(key) \o " cannot be empty"

TooLongNotice(key) ==
    field_name_of(key) \o " exceeds maximum length of "
        \o ToString(LimitOf(key)) \o " characters"

BadCharNotice(key) == field_name_of(key) \o " contains invalid characters"

\* the one failure reported for a field: empty, else too long, else characters
ExpectedNotice(form, key) ==
    IF Trimmed(form, key) = <<>> THEN EmptyNotice(key)
    ELSE IF Len(Trimmed(form, key)) > LimitOf(key) THEN TooLongNotice(key)
    ELSE BadCharNotice(key)

NoticesNaming(key) == {EmptyNotice(key), TooLongNotice(key), BadCharNotice(key)}

\* the forms and clock readings a request may carry in the current state
FormsNow == FormsAt(Len(submissions))
TimesNow == TimesAt(Len(submissions))

\* the newest stored submission
Newest(subs) == subs[Len(subs)]

SubmitOutcomes ==
    {"Rejected", "CapacityRejected", "Accepted", "UnexpectedFailure"}

---------------------------------------------------------------------------
(* The claims.                                                             *)

\* C1: a submit request whose six trimmed fields are all non-empty, within
\* their limits (100, 200) and free of < > " ', sent while the store holds
\* fewer than 1000 submissions, leaves the store equal to the store before
\* with exactly one submission appended at the end; it carries the trimmed
\* category and the five trimmed items in order, and its id is the previous
\* size + 1, greater than the id of every submission already stored.
C1_ValidSubmitAppendsOne ==
    \A form \in FormsNow, now \in TimesNow :
        (AllFieldsOk(form) /\ Len(submissions) < 1000) =>
            LET r == home_post(FALSE, form, now, submissions)
                new == Newest(r.submissions)
            IN  /\ r.outcome = "Accepted"
                /\ Len(r.submissions) = Len(submissions) + 1
                /\ SubSeq(r.submissions, 1, Len(submissions)) = submissions
                /\ new.category = Trimmed(form, "category")
                /\ new.five = TrimmedItems(form)
                /\ new.id = Len(submissions) + 1
                /\ \A i \in 1..Len(submissions) : submissions[i].id < new.id

\* the 1000th submission was accepted, with fields at their limits and
\* trimmed of the whitespace they were sent with
C1_Witness ==
    /\ outcome = "Accepted"
    /\ Len(submissions) = 1000
    /\ Newest(submissions).id = 1000
    /\ Newest(submissions).category = Repeat("c", 100)
    /\ Newest(submissions).five[1] = Repeat("v", 200)
    /\ Newest(submissions).five[2] = <<"w", " ", "w">>

\* C2: a submit request with a field that is empty after trimming, longer
\* than its limit, or containing one of < > " ' leaves the store identical,
\* and surfaces one error notice naming a failing field.
C2_InvalidSubmitKeepsStore ==
    \A form \in FormsNow, now \in TimesNow :
        ~AllFieldsOk(form) =>
            LET r == home_post(FALSE, form, now, submissions)
            IN  /\ r.submissions = submissions
                /\ Len(r.flashed) = 1
                /\ r.flashed[1].category = "error"
                /\ \E k \in FieldKeys :
                       /\ ~FieldOk(form, k)
                       /\ r.flashed[1].message \in NoticesNaming(k)

\* an invalid form was rejected while the store held a submission
C2_Witness ==
    /\ outcome = "Rejected"
    /\ Len(submissions) >= 1
    /\ flashed = <<notice("Item 3 exceeds maximum length of 200 characters",
                          "error")>>

\* C3: the store never holds more than 1000 submissions; at exactly 1000 a
\* fully valid submit is rejected with the fixed limit notice and the store
\* keeps its 1000 submissions.
C3_CapacityBound ==
    /\ Len(submissions) <= 1000
    /\ Len(submissions) = 1000 =>
           \A form \in FormsNow, now \in TimesNow :
               AllFieldsOk(form) =>
                   LET r == home_post(FALSE, form, now, submissions)
                   IN  /\ r.outcome = "CapacityRejected"
                       /\ r.submissions = submissions
                       /\ r.flashed =
                              <<notice("Submission limit reached. Please contact administrator.",
                                       "error")>>

\* the 1001st valid submit was turned away
C3_Witness ==
    /\ outcome = "CapacityRejected"
    /\ Len(submissions) = 1000
    /\ flashed = <<notice(LimitMessage, "error")>>

\* C4, as stated: the id given to an accepted submission was never given
\* before in the life of the process, and is greater than every id given
\* before, also when a clear came in between.
C4_IdsNeverReused ==
    [][(outcome' = "Accepted" /\ Len(submissions') = Len(submissions) + 1) =>
           /\ Newest(submissions').id \notin assigned
           /\ \A j \in assigned : j < Newest(submissions').id]_vars

\* C4, amended: the ids of the stored submissions are 1, 2, ..., size in
\* creation order, so they increase strictly and are pairwise distinct among
\* the submissions accepted since the last clear; a clear restarts the
\* numbering at 1.
C4_IdsArePositions ==
    \A i \in 1..Len(submissions) : submissions[i].id = i

\* ids 1 and 2 were handed out, the store was cleared, and the one
\* submission accepted since then has id 1 again
C4_Witness ==
    /\ assigned = {1, 2}
    /\ outcome = "Accepted"
    /\ Len(submissions) = 1
    /\ submissions[1].id = 1

\* C5: a clear request leaves the store, and the listing, empty whatever the
\* store held; the next accepted submit gets id 1.
C5_ClearEmptiesStore ==
    [][/\ outcome' = "Cleared" =>
              /\ submissions' = <<>>
              /\ home_get(submissions').submissions = <<>>
       /\ (submissions = <<>> /\ outcome' = "Accepted") =>
              /\ Len(submissions') = 1
              /\ submissions'[1].id = 1]_vars

\* a store that had held at least two submissions was just cleared
C5_Witness ==
    /\ outcome = "Cleared"
    /\ assigned = {1, 2}
    /\ submissions = <<>>
    /\ flashed = <<notice(ClearedMessage, "info")>>

\* C6: the listing a display request hands to the page has the length of the
\* store, and the submission created k-th since the last clear is at
\* position size - k + 1.
C6_ListingNewestFirst ==
    outcome = "Displayed" =>
        /\ response.status = 200
        /\ Len(response.submissions) = Len(submissions)
        /\ \A k \in 1..Len(submissions) :
               response.submissions[Len(submissions) - k + 1] = submissions[k]

\* two submissions were accepted and the page lists [second, first]
C6_Witness ==
    /\ outcome = "Displayed"
    /\ Len(submissions) = 2
    /\ response.submissions[1].id = 2
    /\ response.submissions[2].id = 1

\* C7: a display request leaves the store unchanged, and its listing is
\* determined by the store alone, so two display requests with no write
\* between them return identical listings; only an accepted submit or a
\* clear changes the store; and short of a clear, every submission already
\* stored keeps its place and its fields.
C7_StoreFrame ==
    [][/\ outcome' = "Displayed" =>
              /\ submissions' = submissions
              /\ Len(response'.submissions) = Len(submissions)
              /\ \A k \in 1..Len(submissions) :
                     response'.submissions[k]
                         = submissions[Len(submissions) + 1 - k]
       /\ outcome' \notin {"Accepted", "Cleared"} => submissions' = submissions
       /\ outcome' # "Cleared" =>
              /\ Len(submissions') >= Len(submissions)
              /\ SubSeq(submissions', 1, Len(submissions)) = submissions]_vars

\* the page was displayed with a full store
C7_Witness ==
    /\ outcome = "Displayed"
    /\ Len(submissions) = 1000
    /\ Len(response.submissions) = 1000

\* C8: a submit request reports one failure: that of the first failing field
\* in the order category, item 1, ..., item 5, and within the field the empty
\* check before the length check before the character check; the capacity
\* check comes after all six fields, so an invalid form sent to a full store
\* gets the field's notice.
C8_FailurePrecedence ==
    \A form \in FormsNow, now \in TimesNow :
        ~AllFieldsOk(form) =>
            LET r == home_post(FALSE, form, now, submissions)
            IN  /\ r.outcome = "Rejected"
                /\ r.flashed =
                       <<notice(ExpectedNotice(form, FirstBadField(form)),
                                "error")>>

\* an invalid form was sent to a full store and got its field's notice
C8_Witness ==
    /\ outcome = "Rejected"
    /\ Len(submissions) = 1000
    /\ flashed = <<notice("Category cannot be empty", "error")>>

\* C9: every submit request ends in exactly one of Rejected,
\* CapacityRejected, Accepted, UnexpectedFailure, with exactly one notice
\* (error, error, success, the generic error), always with the redirect to
\* the display flow; the store changes only when Accepted; a failure raised
\* while the form is processed ends as UnexpectedFailure, not as a fault.
C9_SubmitEndsInOneOutcome ==
    [][outcome' \notin {"Displayed", "Cleared"} =>
           /\ outcome' \in SubmitOutcomes
           /\ Len(flashed') = 1
           /\ outcome' \in {"Rejected", "CapacityRejected"} =>
                  flashed'[1].category = "error"
           /\ outcome' = "Accepted" =>
                  flashed'[1].category = "success"
           /\ outcome' = "UnexpectedFailure" =>
                  flashed' = <<notice("An error occurred. Please try again.",
                                      "error")>>
           /\ response' = [status |-> 302, location |-> "/"]
           /\ submissions' # submissions => outcome' = "Accepted"]_vars

\* an unreadable request was answered with the generic notice and a redirect
C9_Witness ==
    /\ outcome = "UnexpectedFailure"
    /\ flashed = <<notice(FailureMessage, "error")>>
    /\ response = redirect_home
    /\ Len(submissions) >= 1

\* C10: with requests served concurrently, the capacity test, the id
\* computation and the append of a submit, and the reset of a clear, behave
\* as one critical section: no two stored submissions share an id, and the
\* store never holds more than 1000 submissions.
C10_CriticalSection ==
    /\ Cardinality({submissions[i].id : i \in 1..Len(submissions)})
           = Len(submissions)
    /\ Len(submissions) <= 1000

===========================================================================
